---- MODULE Spec2Model ----
(***************************************************************************)
(* A model of the streaming-plot classes of automate/qtgraph.py:           *)
(*   BufferCurve  - fixed-capacity append buffer with error-bar overlay    *)
(*   ResultsCurve - curve polled from a Results object                     *)
(*   Crosshairs   - guide lines following the rate-limited mouse position  *)
(* and of BN675_AWG.wait_for_trigger of                                    *)
(* pymeasure/instruments/berkeleynucleonics/bn675.py.                      *)
(* Each object is modelled by its own variables and its own               *)
(* specification (Spec for BufferCurve, SpecResults for ResultsCurve,      *)
(* SpecCrosshairs for Crosshairs, SpecWait for wait_for_trigger); the      *)
(* variables of the other objects stay at their initial values.            *)
(***************************************************************************)
EXTENDS Integers, Sequences, FiniteSets, TLC

(***************************************************************************)
(* Bounds of the model.                                                    *)
(***************************************************************************)
\* largest size passed to prepare
MaxCap == 2
\* number of prepare/append calls in one behaviour of Spec
MaxOps == 5
\* longest column of a Results snapshot
MaxRows == 2
\* number of update()/source steps in one behaviour of SpecResults
MaxPolls == 3
\* number of "coordinates" emissions in one behaviour of SpecCrosshairs
MaxCoords == 3
\* raw mouse events counted between two runs of the mouseMoved slot
MaxBurst == 3
\* seconds a wait_for_trigger call is followed, and its largest timeout
MaxWait == 3

(***************************************************************************)
(* Python / numpy values.  Every value is a record so that values of       *)
(* different Python types can be compared.                                 *)
(***************************************************************************)
Num(n) == [tag |-> "num", val |-> n]
NaN == [tag |-> "nan", val |-> 0]
PyNone == [tag |-> "None", val |-> 0]
PyStr == [tag |-> "str", val |-> 0]
\* a cell of np.empty() that was never assigned
Uninit == [tag |-> "uninit", val |-> 0]

\* the absent object: self._buffer = None, an unset attribute, unset plot data
None == [tag |-> "None", val |-> 0]

\* 2^24: up to here float32 holds every integer exactly
F32Exact == 16777216

\* round an integer to the nearest float32 (ties to even), for |n| < 2^25
RoundF32(n) ==
    LET a == IF n < 0 THEN -n ELSE n
        r == IF a <= F32Exact \/ a % 2 = 0 THEN a
             ELSE IF (a - 1) % 4 = 0 THEN a - 1 ELSE a + 1
    IN IF n < 0 THEN -r ELSE r

\* numpy can store v in a float array: numbers, and None (stored as nan);
\* a string that is no number raises ValueError
Storable(v) == v.tag \in {"num", "nan", "None"}

\* the float stored for v in an array of the given dtype
Cast(dtype, v) ==
    IF v.tag = "num"
    THEN (IF dtype = "float32" THEN Num(RoundF32(v.val)) ELSE v)
    ELSE NaN

\* arguments tried for x and y: a float32, a number float32 rounds, a string
ArgVals == {Num(1), Num(F32Exact + 1), PyStr}
\* arguments tried for xError and yError: without error bars they are left at
\* their default, None
ErrorArgVals(err) == IF err THEN {Num(2), PyStr} ELSE {PyNone}
DTypes == {"float32", "float64"}
PrepareSizes == (-1) .. MaxCap

(***************************************************************************)
(* State.                                                                  *)
(***************************************************************************)
VARIABLES
    \* BufferCurve
    errors,      \* hasattr(self, '_errorBars')
    buffer,      \* self._buffer: None, or [dtype, rows]
    ptr,         \* self._ptr (None while the attribute is unset)
    published,   \* argument of the last setData(): None, or a sequence of <<x, y>>
    overlay,     \* options of the last _errorBars.setOpts(): None, or a record
    emits,       \* data_updated emissions: the value of _ptr at each emit
    appended,    \* history: arguments of the appends that returned, since prepare
    returned,    \* history: number of appends that returned without error
    last,        \* history: the last call, its arguments and how it ended
    steps        \* history: number of calls made

bvars == <<errors, buffer, ptr, published, overlay, emits, appended, returned,
           last, steps>>

VARIABLES
    \* ResultsCurve
    curve,       \* construction: [force_reload, errorBars, xerr, yerr]
    kind,        \* Python type of a column of results.data
    snapshot,    \* results.data: column name -> sequence of numbers
    series,      \* arguments of the last setData(): None, or [x, y]
    bars,        \* options of the last _errorBars.setOpts(): None, or a record
    reloads,     \* number of calls of results.reload()
    updates,     \* number of calls of update()
    rlast        \* history: the last step, how it ended, the series before it

rvars == <<curve, kind, snapshot, series, bars, reloads, updates, rlast>>

VARIABLES
    \* Crosshairs
    position,    \* self.position: None, or a scene point
    vertical,    \* position of self.vertical (an x)
    horizontal,  \* position of self.horizontal (a y)
    visible,     \* [vertical, horizontal]: whether each line is shown
    transform,   \* the view transform of self.plot.vb
    coords,      \* "coordinates" signal: [count, pair] of the emissions so far
    running,     \* position in update(): "idle", or "emitted" (before setPos)
    proxy,       \* self.proxy: [args, timer, sinceFlush] (times in ms)
    burst,       \* history: the raw events since the proxy last ran the slot
    recordedView,\* history: the view transform when self.position was set
    clast        \* history: the last call, its argument and how it ended

cvars == <<position, vertical, horizontal, visible, transform, coords, running,
           proxy, burst, recordedView, clast>>

VARIABLES
    \* BN675_AWG.wait_for_trigger
    wait,        \* the call: [pc, timeout, stop, elapsed, ready, polls]
    runState,    \* what a read of run_state gives now: 0, 1, 2, or -1 for
                 \* a read that raises VisaIOError
    stopWanted   \* what should_stop() returns now, if it is a function

wvars == <<wait, runState, stopWanted>>

vars == <<bvars, rvars, cvars, wvars>>

(***************************************************************************)
(* BufferCurve                                                             *)
(***************************************************************************)
\* record width chosen by prepare
Width(err) == IF err THEN 4 ELSE 2

\* np.empty((size, width), dtype)
NpEmpty(size, width, dtype) ==
    [dtype |-> dtype, rows |-> [i \in 1 .. size |-> [j \in 1 .. width |-> Uninit]]]

\* len(self._buffer)
BufLen(buf) == Len(buf.rows)

\* buf[p, from:from+2] = [a, b]   (p is 0-based, columns are 1-based here)
SetPair(buf, p, from, a, b) ==
    [buf EXCEPT !.rows[p + 1] =
        [@ EXCEPT ![from] = Cast(buf.dtype, a), ![from + 1] = Cast(buf.dtype, b)]]

\* what a failed buf[p, from:from+2] = [a, b] can leave behind: the array
\* untouched (the list is converted in a temporary first), or the elements
\* before the failing one already stored (converted in place)
SetPairFailed(buf, p, from, a, b) ==
    {buf} \cup
    (IF Storable(a)
     THEN {[buf EXCEPT !.rows[p + 1][from] = Cast(buf.dtype, a)]}
     ELSE {})

\* Slice2 gone wrong: the slice taken after the pointer has moved, [:p+1]
Slice2Through(buf, p) ==
    [i \in 1 .. (IF p + 1 < BufLen(buf) THEN p + 1 ELSE BufLen(buf)) |->
        <<buf.rows[i][1], buf.rows[i][2]>>]

\* self._buffer[:p, :2]
Slice2(buf, p) ==
    [i \in 1 .. (IF p < BufLen(buf) THEN p ELSE BufLen(buf)) |->
        <<buf.rows[i][1], buf.rows[i][2]>>]

\* self._buffer[:p, c]   (c is the 0-based column)
SliceCol(buf, p, c) ==
    [i \in 1 .. (IF p < BufLen(buf) THEN p ELSE BufLen(buf)) |-> buf.rows[i][c + 1]]

\* the larger of two floats as np.max sees them: nan wins
Max2(a, b) ==
    IF a.tag = "nan" THEN a
    ELSE IF b.tag = "nan" THEN b
    ELSE IF a.val >= b.val THEN a ELSE b

RECURSIVE MaxOfSeq(_)
MaxOfSeq(s) ==
    IF Len(s) = 1 THEN s[1] ELSE Max2(s[1], MaxOfSeq(Tail(s)))

\* np.max(self._buffer[:p, 2:]) is defined only for a non-empty slice
NpMaxDefined(buf, p) == p > 0

\* np.max(self._buffer[:p, 2:])
NpMax(buf, p) == MaxOfSeq(SliceCol(buf, p, 2) \o SliceCol(buf, p, 3))

\* the keyword arguments of self._errorBars.setOpts(...)
OverlayOpts(buf, p) ==
    [x |-> SliceCol(buf, p, 0),
     y |-> SliceCol(buf, p, 1),
     top |-> SliceCol(buf, p, 3),
     bottom |-> SliceCol(buf, p, 3),
     left |-> SliceCol(buf, p, 2),
     right |-> SliceCol(buf, p, 2),
     beam |-> NpMax(buf, p)]

\* Overflow gone wrong: "<" for "<="
OverflowLate(buf, p) == BufLen(buf) < p

\* the guard "if len(self._buffer) <= self._ptr"
Overflow(buf, p) == BufLen(buf) <= p

\* self._ptr += 1
NextPtr(p) == p + 1

\* Emit gone wrong: emitted before "self._ptr += 1"
EmitBeforeIncrement(log, p) == Append(log, p - 1)

\* self.data_updated.emit(): the observers run with the current _ptr
Emit(log, p) == Append(log, p)

BufferInit ==
    /\ errors \in BOOLEAN
    /\ buffer = None
    /\ ptr = None
    /\ published = None
    /\ overlay = None
    /\ emits = <<>>
    /\ appended = <<>>
    /\ returned = 0
    /\ last = [op |-> "init", err |-> "none", args |-> <<>>]
    /\ steps = 0

\* ResetPtr gone wrong: the pointer set only when there was none
ResetPtrOnce == IF buffer = None THEN 0 ELSE ptr

\* "self._ptr = 0"
ResetPtr == 0

\* prepare(size, dtype)
Prepare(size, dtype) ==
    /\ steps < MaxOps
    /\ steps' = steps + 1
    /\ IF size < 0
       THEN \* np.empty raises ValueError: negative dimensions are not allowed
            /\ last' = [op |-> "prepare", err |-> "ValueError", args |-> <<size>>]
            /\ UNCHANGED <<buffer, ptr, appended>>
       ELSE /\ buffer' = NpEmpty(size, Width(errors), dtype)
            /\ ptr' = ResetPtr
            /\ appended' = <<>>
            /\ last' = [op |-> "prepare", err |-> "none", args |-> <<size>>]
    /\ UNCHANGED <<errors, published, overlay, emits, returned>>
    /\ UNCHANGED <<rvars, cvars, wvars>>

\* AppendRaises gone wrong: the notification sent on the way out of a failure
AppendRaisesNotifying(args, err, b, pub) ==
    /\ last' = [op |-> "append", err |-> err, args |-> args]
    /\ buffer' = b
    /\ published' = pub
    /\ emits' = Append(emits, 0)
    /\ UNCHANGED <<ptr, overlay, appended, returned>>

\* an append that raises err, leaving buffer b and published slice pub
AppendRaises(args, err, b, pub) ==
    /\ last' = [op |-> "append", err |-> err, args |-> args]
    /\ buffer' = b
    /\ published' = pub
    /\ UNCHANGED <<ptr, overlay, emits, appended, returned>>

\* the tail of a successful append: self._ptr += 1; self.data_updated.emit()
AppendReturns(args, b, pub, ov) ==
    /\ last' = [op |-> "append", err |-> "none", args |-> args]
    /\ buffer' = b
    /\ published' = pub
    /\ overlay' = ov
    /\ ptr' = NextPtr(ptr)
    /\ emits' = Emit(emits, ptr')
    /\ appended' = Append(appended, args)
    /\ returned' = returned + 1

\* "if self._buffer is None"
Unprepared(buf) == buf = None

\* append(x, y, xError, yError)
AppendCall(x, y, xError, yError) ==
    LET args == <<x, y, xError, yError>> IN
    /\ steps < MaxOps
    /\ steps' = steps + 1
    /\ UNCHANGED errors
    /\ UNCHANGED <<rvars, cvars, wvars>>
    /\ IF Unprepared(buffer)
       THEN AppendRaises(args, "BufferCurve buffer must be prepared", buffer, published)
       ELSE IF Overflow(buffer, ptr)
       THEN AppendRaises(args, "BufferCurve overflow", buffer, published)
       ELSE IF ~(Storable(x) /\ Storable(y))
       THEN \E b \in SetPairFailed(buffer, ptr, 1, x, y) :
                AppendRaises(args, "ValueError", b, published)
       ELSE LET b1 == SetPair(buffer, ptr, 1, x, y)
                pub == Slice2(b1, ptr)
            IN IF ~errors
               THEN AppendReturns(args, b1, pub, overlay)
               ELSE IF ~(Storable(xError) /\ Storable(yError))
               THEN \E b \in SetPairFailed(b1, ptr, 3, xError, yError) :
                        AppendRaises(args, "ValueError", b, pub)
               ELSE LET b2 == SetPair(b1, ptr, 3, xError, yError)
                    IN IF ~NpMaxDefined(b2, ptr)
                       THEN \* np.max of a zero-size array raises ValueError
                            AppendRaises(args, "ValueError", b2, pub)
                       ELSE AppendReturns(args, b2, pub, OverlayOpts(b2, ptr))

\* the BufferCurve that Spec of ResultsCurve leaves alone
BufferIdle ==
    /\ errors = FALSE
    /\ buffer = None
    /\ ptr = None
    /\ published = None
    /\ overlay = None
    /\ emits = <<>>
    /\ appended = <<>>
    /\ returned = 0
    /\ last = [op |-> "init", err |-> "none", args |-> <<>>]
    /\ steps = 0

(***************************************************************************)
(* The Results object (automate.experiment.Results): its data is a mapping *)
(* from column names to equally long columns, and reload() re-reads it.    *)
(***************************************************************************)
Columns == {"x", "y", "dx", "dy"}

\* rows a results file is made of
FileRows ==
    {[x |-> 1, y |-> 2, dx |-> 1, dy |-> 2],
     [x |-> 3, y |-> 4, dx |-> 2, dy |-> 1]}

\* the column sets a file can have: complete, or one column missing
ColumnSets == {Columns} \cup {Columns \ {c} : c \in Columns}

Files == UNION {[1 .. n -> FileRows] : n \in 0 .. MaxRows}

\* the data of a file f with the columns cols
DataOf(f, cols) == [c \in cols |-> [i \in 1 .. Len(f) |-> f[i][c]]]

Snapshots == {DataOf(f, cols) : f \in Files, cols \in ColumnSets}

\* Python types a column may have
Kinds == {"list", "ndarray", "Series"}

\* data[name] raises KeyError
KeyError(data, name) == name \notin DOMAIN data

(***************************************************************************)
(* ResultsCurve                                                            *)
(***************************************************************************)
\* b > a for two Python lists (lexicographic)
RECURSIVE ListGreater(_, _)
ListGreater(b, a) ==
    IF Len(b) = 0 THEN FALSE
    ELSE IF Len(a) = 0 THEN TRUE
    ELSE IF b[1] /= a[1] THEN b[1] > a[1]
    ELSE ListGreater(Tail(b), Tail(a))

\* max(a, b) raises: the truth value of the elementwise b > a is ambiguous
\* for an array of more than one element, and for every Series
MaxRaises(k, a, b) ==
    \/ k = "Series"
    \/ k = "ndarray" /\ Len(a) > 1

\* the builtin max(a, b): b if b > a, else a
BuiltinMax(k, a, b) ==
    IF k = "list" THEN (IF ListGreater(b, a) THEN b ELSE a)
    ELSE IF Len(a) = 1 /\ b[1] > a[1] THEN b ELSE a

\* ResultsCurve.__init__: the error bars exist if xerr or yerr is given
NewCurve(xerr, yerr, force_reload) ==
    [force_reload |-> force_reload,
     errorBars |-> (xerr /= "None" \/ yerr /= "None"),
     xerr |-> xerr,
     yerr |-> yerr]

\* ReloadWanted gone wrong: the flag ignored
ReloadAlways(c) == TRUE

\* "if self.force_reload:"
ReloadWanted(c) == c.force_reload

\* SeriesOf gone wrong: the snapshot appended to the series shown
SeriesExtended(data) ==
    IF series = None THEN [x |-> data["x"], y |-> data["y"]]
    ELSE [x |-> series.x \o data["x"], y |-> series.y \o data["y"]]

\* the arguments of self.setData(data[self.x], data[self.y])
SeriesOf(data) == [x |-> data["x"], y |-> data["y"]]

\* the keyword arguments of self._errorBars.setOpts(...)
BarsOf(c, k, data) ==
    [x |-> data["x"],
     y |-> data["y"],
     top |-> data[c.yerr],
     bottom |-> data[c.yerr],
     left |-> data[c.xerr],
     right |-> data[c.yerr],
     beam |-> BuiltinMax(k, data[c.xerr], data[c.yerr])]

ResultsInit ==
    /\ \E xerr \in {"None", "dx"}, yerr \in {"None", "dy"}, f \in BOOLEAN :
           curve = NewCurve(xerr, yerr, f)
    /\ kind \in Kinds
    /\ snapshot \in Snapshots
    /\ series = None
    /\ bars = None
    /\ reloads = 0
    /\ updates = 0
    /\ rlast = [op |-> "init", err |-> "none", before |-> None]

ResultsIdle ==
    /\ curve = NewCurve("None", "None", FALSE)
    /\ kind = "list"
    /\ snapshot = DataOf(<<>>, Columns)
    /\ series = None
    /\ bars = None
    /\ reloads = 0
    /\ updates = 0
    /\ rlast = [op |-> "init", err |-> "none", before |-> None]

\* the file behind the Results object changes between two calls
SourceChanges(data) ==
    /\ data /= snapshot
    /\ snapshot' = data
    /\ rlast' = [op |-> "source", err |-> "none", before |-> series]
    /\ UNCHANGED <<curve, kind, series, bars, reloads, updates>>
    /\ UNCHANGED <<bvars, cvars, wvars>>

\* the rest of update() once the snapshot is read
UpdateFrom(data) ==
    IF KeyError(data, "x") \/ KeyError(data, "y")
    THEN /\ rlast' = [op |-> "update", err |-> "KeyError", before |-> series]
         /\ UNCHANGED <<series, bars>>
    ELSE /\ series' = SeriesOf(data)
         /\ IF ~curve.errorBars
            THEN /\ rlast' = [op |-> "update", err |-> "none", before |-> series]
                 /\ UNCHANGED bars
            ELSE IF KeyError(data, curve.yerr) \/ KeyError(data, curve.xerr)
            THEN /\ rlast' = [op |-> "update", err |-> "KeyError", before |-> series]
                 /\ UNCHANGED bars
            ELSE IF MaxRaises(kind, data[curve.xerr], data[curve.yerr])
            THEN /\ rlast' = [op |-> "update", err |-> "ValueError", before |-> series]
                 /\ UNCHANGED bars
            ELSE /\ rlast' = [op |-> "update", err |-> "none", before |-> series]
                 /\ bars' = BarsOf(curve, kind, data)

\* update()
Update ==
    /\ updates < MaxPolls
    /\ updates' = updates + 1
    /\ UNCHANGED <<curve, kind>>
    /\ UNCHANGED <<bvars, cvars, wvars>>
    /\ IF ReloadWanted(curve)
       THEN /\ reloads' = reloads + 1
            /\ \/ \* results.reload() raises
                  /\ rlast' = [op |-> "update", err |-> "ReloadError", before |-> series]
                  /\ UNCHANGED <<snapshot, series, bars>>
               \/ \* results.reload() returns with the file as it is now
                  \E data \in Snapshots :
                      /\ snapshot' = data
                      /\ UpdateFrom(data)
       ELSE /\ UNCHANGED <<reloads, snapshot>>
            /\ UpdateFrom(snapshot)

(***************************************************************************)
(* Crosshairs                                                              *)
(***************************************************************************)
\* scene positions of the mouse
ScenePoints == {[x |-> 5, y |-> 7], [x |-> 2, y |-> 3]}

\* view transforms of the plot: the identity, and a zoomed and panned view
Identity == [ax |-> 1, bx |-> 0, ay |-> 1, by |-> 0]
ViewTransforms == {Identity, [ax |-> 2, bx |-> 1, ay |-> 3, by |-> -1]}

\* self.plot.vb.mapSceneToView(p)
MapSceneToView(t, p) == [x |-> t.ax * p.x + t.bx, y |-> t.ay * p.y + t.by]

\* RateLimit gone wrong: 60 events per millisecond
RateLimitPerMs == 60 * 1000

\* rateLimit=60 of the SignalProxy
RateLimit == 60

\* the time between two flushes the proxy enforces, in ms: 1/rateLimit
LeakWindow == 1000 \div RateLimit

\* the rate-limiting window of 60 events per second, in ms
WindowMs == 16

\* SignalProxy.signalReceived: the timer is restarted to fire 1 ms after the
\* rest of the window since the last flush
TimerAfter(px) ==
    IF px.sinceFlush = -1 \/ px.sinceFlush >= LeakWindow THEN 1
    ELSE LeakWindow - px.sinceFlush + 1

\* InfiniteLine position of a line that was never moved
LineOrigin == 0

CrosshairsInit ==
    /\ position = None
    /\ vertical = LineOrigin
    /\ horizontal = LineOrigin
    /\ visible = [vertical |-> TRUE, horizontal |-> TRUE]
    /\ transform \in ViewTransforms
    /\ coords = [count |-> 0, pair |-> None]
    /\ running = "idle"
    /\ proxy = [args |-> None, timer |-> -1, sinceFlush |-> -1]
    /\ burst = [n |-> 0, first |-> None, latest |-> None, collapsed |-> 0,
                gap |-> -1]
    /\ recordedView = None
    /\ clast = [op |-> "init", err |-> "none", arg |-> None]

CrosshairsIdle ==
    /\ position = None
    /\ vertical = LineOrigin
    /\ horizontal = LineOrigin
    /\ visible = [vertical |-> TRUE, horizontal |-> TRUE]
    /\ transform = Identity
    /\ coords = [count |-> 0, pair |-> None]
    /\ running = "idle"
    /\ proxy = [args |-> None, timer |-> -1, sinceFlush |-> -1]
    /\ burst = [n |-> 0, first |-> None, latest |-> None, collapsed |-> 0,
                gap |-> -1]
    /\ recordedView = None
    /\ clast = [op |-> "init", err |-> "none", arg |-> None]

\* "if self.position is not None"
HasPosition(pos) == pos /= None

\* self.coordinates.emit(mousePoint.x(), mousePoint.y())
EmitCoordinates(c, mousePoint) == [count |-> c.count + 1, pair |-> mousePoint]

\* VerticalPos gone wrong: the y given to the vertical line
VerticalPosOfY(mousePoint) == mousePoint.y

\* self.vertical.setPos(mousePoint.x())
VerticalPos(mousePoint) == mousePoint.x

\* HorizontalPos gone wrong: the line left where the scene position is
HorizontalPosOfScene(mousePoint) == position.y

\* self.horizontal.setPos(mousePoint.y())
HorizontalPos(mousePoint) == mousePoint.y

\* "self.position = event[0]"
Recorded(event) == event

\* MousePoint gone wrong: the view in force when a position was last
\* recorded, kept instead of the current one
MousePointCached(pos) ==
    MapSceneToView(IF recordedView = None THEN transform ELSE recordedView, pos)

\* mousePoint = self.plot.vb.mapSceneToView(self.position)
MousePoint(pos) == MapSceneToView(transform, pos)

\* update() up to and including coordinates.emit(), for self.position = pos
UpdateBegin(pos) ==
    IF HasPosition(pos)
    THEN /\ coords.count < MaxCoords
         /\ coords' = EmitCoordinates(coords, MousePoint(pos))
         /\ running' = "emitted"
    ELSE UNCHANGED <<coords, running>>

\* the rest of update(): the two setPos calls, after the slots of
\* "coordinates" have returned
UpdateEnd ==
    /\ running = "emitted"
    /\ running' = "idle"
    /\ vertical' = VerticalPos(MousePoint(position))
    /\ horizontal' = HorizontalPos(MousePoint(position))
    /\ UNCHANGED <<position, visible, transform, coords, proxy, burst,
                   recordedView, clast>>
    /\ UNCHANGED <<bvars, rvars, wvars>>

\* update() called by the host
UpdateCall ==
    /\ running = "idle"
    /\ clast' = [op |-> "update", err |-> "none", arg |-> None]
    /\ UpdateBegin(position)
    /\ UNCHANGED <<position, vertical, horizontal, visible, transform, proxy,
                   burst, recordedView>>
    /\ UNCHANGED <<bvars, rvars, wvars>>

\* EventKnown gone wrong: the test left out
EventAlwaysKnown(event) == TRUE

\* "if event is not None"
EventKnown(event) == event /= None

\* mouseMoved(event) up to coordinates.emit(); event is None or a position
MouseMovedBegin(event) ==
    IF EventKnown(event)
    THEN /\ clast' = [op |-> "mouseMoved", err |-> "none", arg |-> event]
         /\ position' = Recorded(event)
         /\ recordedView' = transform
         /\ UpdateBegin(position')
    ELSE /\ clast' = [op |-> "mouseMoved", err |-> "Mouse location not known",
                      arg |-> event]
         /\ UNCHANGED <<position, recordedView, coords, running>>

\* mouseMoved(event) called directly, also with None
MouseMovedCall(event) ==
    /\ running = "idle"
    /\ MouseMovedBegin(event)
    /\ UNCHANGED <<vertical, horizontal, visible, transform, proxy, burst>>
    /\ UNCHANGED <<bvars, rvars, wvars>>

\* Hide gone wrong: the recorded position dropped with the lines
HideForgets ==
    /\ running = "idle"
    /\ visible' = [vertical |-> FALSE, horizontal |-> FALSE]
    /\ position' = None
    /\ clast' = [op |-> "hide", err |-> "none", arg |-> None]
    /\ UNCHANGED <<vertical, horizontal, transform, coords, running, proxy,
                   burst, recordedView>>
    /\ UNCHANGED <<bvars, rvars, wvars>>

\* hide()
Hide ==
    /\ running = "idle"
    /\ visible' = [vertical |-> FALSE, horizontal |-> FALSE]
    /\ clast' = [op |-> "hide", err |-> "none", arg |-> None]
    /\ UNCHANGED <<position, vertical, horizontal, transform, coords, running,
                   proxy, burst, recordedView>>
    /\ UNCHANGED <<bvars, rvars, wvars>>

\* show()
Show ==
    /\ running = "idle"
    /\ visible' = [vertical |-> TRUE, horizontal |-> TRUE]
    /\ clast' = [op |-> "show", err |-> "none", arg |-> None]
    /\ UNCHANGED <<position, vertical, horizontal, transform, coords, running,
                   proxy, burst, recordedView>>
    /\ UNCHANGED <<bvars, rvars, wvars>>

\* the view is panned or zoomed
ViewChanges(t) ==
    /\ running = "idle"
    /\ t /= transform
    /\ transform' = t
    /\ clast' = [op |-> "view", err |-> "none", arg |-> None]
    /\ UNCHANGED <<position, vertical, horizontal, visible, coords, running,
                   proxy, burst, recordedView>>
    /\ UNCHANGED <<bvars, rvars, wvars>>

\* the scene emits sigMouseMoved(p): SignalProxy.signalReceived keeps the
\* arguments and restarts its timer
RawMouseMoved(p) ==
    /\ running = "idle"
    /\ burst.n < MaxBurst
    /\ proxy' = [proxy EXCEPT !.args = p, !.timer = TimerAfter(proxy)]
    /\ burst' = [burst EXCEPT !.n = @ + 1,
                                !.first = IF burst.n = 0 THEN p ELSE @,
                                !.latest = p]
    /\ clast' = [op |-> "sigMouseMoved", err |-> "none", arg |-> p]
    /\ UNCHANGED <<position, vertical, horizontal, visible, transform, coords,
                   running, recordedView>>
    /\ UNCHANGED <<bvars, rvars, wvars>>

\* one millisecond passes; a timer that is due may fire late, not early
Tick ==
    /\ running = "idle"
    /\ proxy' = [proxy EXCEPT
                    !.timer = IF @ > 0 THEN @ - 1 ELSE @,
                    !.sinceFlush = IF @ = -1 \/ @ > WindowMs THEN @ ELSE @ + 1]
    /\ proxy' /= proxy
    /\ clast' = [op |-> "tick", err |-> "none", arg |-> None]
    /\ UNCHANGED <<position, vertical, horizontal, visible, transform, coords,
                   running, burst, recordedView>>
    /\ UNCHANGED <<bvars, rvars, wvars>>

\* the proxy's timer fires: SignalProxy.flush passes the kept arguments to
\* the slot, mouseMoved
Flush ==
    /\ running = "idle"
    /\ proxy.timer = 0
    /\ proxy.args /= None
    /\ proxy' = [args |-> None, timer |-> -1, sinceFlush |-> 0]
    /\ burst' = [burst EXCEPT !.n = 0, !.collapsed = burst.n,
                                !.gap = proxy.sinceFlush]
    /\ MouseMovedBegin(proxy.args)
    /\ UNCHANGED <<vertical, horizontal, visible, transform>>
    /\ UNCHANGED <<bvars, rvars, wvars>>

(***************************************************************************)
(* BN675_AWG.wait_for_trigger                                              *)
(***************************************************************************)
\* values of the run_state query: 0 stopped, 1 waiting for trigger,
\* 2 running; -1 stands for a read that raises VisaIOError
RunStates == {0, 1, 2, -1}

\* arguments tried for timeout, in seconds (0: no timeout)
Timeouts == 0 .. (MaxWait - 1)

\* arguments tried for should_stop: a function returning a bool, or None
StopArgs == {"function", "None"}

\* "ready = self.run_state", with -1 when the read raises VisaIOError
ReadRunState(rs) == rs

\* should_stop(): what the stop function returns when it is called
ShouldStopCalled(stop, wanted) == stop = "function" /\ wanted

\* "if should_stop": the truth value of the argument itself; a function
\* object is true whatever it would return
ShouldStop(stop, wanted) == stop = "function"

\* "if timeout != 0 and time() - t0 > timeout"
TimedOut(timeout, elapsed) == timeout /= 0 /\ elapsed > timeout

WaitIdle ==
    /\ wait = [pc |-> "idle", timeout |-> 0, stop |-> "None", elapsed |-> 0,
               ready |-> 0, polls |-> 0]
    /\ runState = 0
    /\ stopWanted = FALSE

WaitInit ==
    /\ wait = [pc |-> "idle", timeout |-> 0, stop |-> "None", elapsed |-> 0,
               ready |-> 0, polls |-> 0]
    /\ runState \in RunStates
    /\ stopWanted \in BOOLEAN

\* wait_for_trigger(timeout, should_stop) is called: t0 = time()
WaitCall(timeout, stop) ==
    /\ wait.pc = "idle"
    /\ wait' = [pc |-> "loop", timeout |-> timeout, stop |-> stop,
                elapsed |-> 0, ready |-> 0, polls |-> 0]
    /\ UNCHANGED <<runState, stopWanted>>
    /\ UNCHANGED <<bvars, rvars, cvars>>

\* one pass of "while True"
WaitPoll ==
    /\ wait.pc = "loop"
    /\ LET ready == ReadRunState(runState)
       IN wait' = [wait EXCEPT
                      !.ready = ready,
                      !.polls = IF @ < 2 THEN @ + 1 ELSE @,
                      !.pc = IF ready /= 0 THEN "returned"
                             ELSE IF TimedOut(wait.timeout, wait.elapsed)
                             THEN "TimeoutError"
                             ELSE IF ShouldStop(wait.stop, stopWanted)
                             THEN "returned"
                             ELSE "loop"]
    /\ wait' /= wait
    /\ UNCHANGED <<runState, stopWanted>>
    /\ UNCHANGED <<bvars, rvars, cvars>>

\* a second passes during the call
WaitTick ==
    /\ wait.pc = "loop"
    /\ wait.elapsed < MaxWait
    /\ wait' = [wait EXCEPT !.elapsed = @ + 1]
    /\ UNCHANGED <<runState, stopWanted>>
    /\ UNCHANGED <<bvars, rvars, cvars>>

\* the instrument changes its run state, or stops answering
DeviceChanges(rs) ==
    /\ wait.pc \in {"idle", "loop"}
    /\ rs /= runState
    /\ runState' = rs
    /\ UNCHANGED <<wait, stopWanted>>
    /\ UNCHANGED <<bvars, rvars, cvars>>

\* the caller's stop condition changes
StopChanges ==
    /\ wait.pc \in {"idle", "loop"}
    /\ stopWanted' = ~stopWanted
    /\ UNCHANGED <<wait, runState>>
    /\ UNCHANGED <<bvars, rvars, cvars>>

(***************************************************************************)
(* Specifications                                                          *)
(***************************************************************************)
Init == BufferInit /\ ResultsIdle /\ CrosshairsIdle /\ WaitIdle

Next ==
    \/ \E size \in PrepareSizes, dtype \in DTypes : Prepare(size, dtype)
    \/ \E x \in ArgVals, y \in ArgVals :
           \E xError \in ErrorArgVals(errors), yError \in ErrorArgVals(errors) :
               AppendCall(x, y, xError, yError)

Spec == Init /\ [][Next]_vars

InitResults == BufferIdle /\ ResultsInit /\ CrosshairsIdle /\ WaitIdle

NextResults ==
    \/ Update
    \/ \E data \in Snapshots : SourceChanges(data)

SpecResults == InitResults /\ [][NextResults]_vars

InitCrosshairs == BufferIdle /\ ResultsIdle /\ CrosshairsInit /\ WaitIdle

NextCrosshairs ==
    \/ \E p \in ScenePoints : RawMouseMoved(p)
    \/ Tick
    \/ Flush
    \/ \E event \in ScenePoints \cup {None} : MouseMovedCall(event)
    \/ UpdateCall
    \/ UpdateEnd
    \/ Hide
    \/ Show
    \/ \E t \in ViewTransforms : ViewChanges(t)

SpecCrosshairs == InitCrosshairs /\ [][NextCrosshairs]_vars

InitWait == BufferIdle /\ ResultsIdle /\ CrosshairsIdle /\ WaitInit

NextWait ==
    \/ \E timeout \in Timeouts, stop \in StopArgs : WaitCall(timeout, stop)
    \/ WaitPoll
    \/ WaitTick
    \/ \E rs \in RunStates : DeviceChanges(rs)
    \/ StopChanges

SpecWait == InitWait /\ [][NextWait]_vars
(***************************************************************************)
(* Properties of BufferCurve (checked under Spec)                          *)
(***************************************************************************)
\* every argument the call uses is a number: x and y, and with error bars
\* xError and yError
AllNumbers(args) == \A i \in 1 .. Width(errors) : args[i].tag = "num"

\* the record stored for the arguments of an append
StoredPair(buf, args) == <<Cast(buf.dtype, args[1]), Cast(buf.dtype, args[2])>>

\* C1 (as claimed): in either mode, an append of numbers to a prepared buffer
\* returns while fewer than capacity appends have returned since prepare, and
\* once capacity is reached it raises the overflow error and leaves the
\* published slice as it was.
C1_CapacityBound ==
    [][(last'.op = "append" /\ ~Unprepared(buffer) /\ AllNumbers(last'.args)) =>
          IF ptr < BufLen(buffer)
          THEN last'.err = "none" /\ ptr' = ptr + 1
          ELSE /\ last'.err = "BufferCurve overflow"
               /\ published' = published]_vars

\* C2: after k > 0 appends have returned since prepare, the slice published
\* last is the first k-1 appended records, in order, as stored; after the
\* first one it is empty, and the k-th record is not in it.
C2_VisibilityLag ==
    (~Unprepared(buffer) /\ Len(appended) > 0) =>
        /\ Len(appended) <= BufLen(buffer)
        /\ published = [i \in 1 .. Len(appended) - 1 |->
                            StoredPair(buffer, appended[i])]

\* C2 witness: two appends have returned, of records that differ, the first is
\* published and its x was rounded by the buffer's dtype
C2_Witness ==
    /\ ~Unprepared(buffer)
    /\ Len(appended) = 2
    /\ Len(published) = 1
    /\ appended[1] /= appended[2]
    /\ published[1][1] /= appended[1][1]

\* C3 (as claimed, for appends of numbers): an append that raises, whatever
\* the cause and in either mode, leaves ptr, the buffer, the published slice
\* and the overlay as they were; one that returns has stored the record,
\* moved ptr by one and notified once.
C3_AllOrNothing ==
    [][(last'.op = "append" /\ AllNumbers(last'.args)) =>
          IF last'.err /= "none"
          THEN UNCHANGED <<ptr, buffer, published, overlay, emits>>
          ELSE /\ ptr' = ptr + 1
               /\ Len(emits') = Len(emits) + 1
               /\ buffer'.rows[ptr + 1][1] = Cast(buffer.dtype, last'.args[1])]_vars

\* C4: once prepared, 0 <= ptr <= capacity in every state, and ptr changes
\* only by +1 in an append that returns or to 0 in a prepare that returns.
C4_PtrRange ==
    [][IF Unprepared(buffer') THEN Unprepared(buffer)
       ELSE /\ ptr' \in 0 .. BufLen(buffer')
            /\ IF Unprepared(buffer)
               THEN last'.op = "prepare" /\ last'.err = "none" /\ ptr' = 0
               ELSE ptr' /= ptr =>
                        \/ /\ last'.op = "append" /\ last'.err = "none"
                           /\ ptr' = ptr + 1
                        \/ /\ last'.op = "prepare" /\ last'.err = "none"
                           /\ ptr' = 0]_vars

\* C4 witness: a full buffer after an append was refused
C4_Witness ==
    /\ ~Unprepared(buffer)
    /\ BufLen(buffer) = MaxCap
    /\ ptr = BufLen(buffer)
    /\ last.op = "append"
    /\ last.err = "BufferCurve overflow"

\* C5: the number of notifications equals the number of appends that
\* returned, and each was emitted after ptr was incremented: the observers
\* of the latest one saw the ptr the append left.
C5_NotifyOncePerAppend ==
    /\ Len(emits) = returned
    /\ \A i \in 1 .. Len(emits) : emits[i] >= 1
    /\ (last.op = "append" /\ last.err = "none") =>
           emits[Len(emits)] = ptr

\* C5 witness: appends that returned and appends that raised, in one run
C5_Witness ==
    /\ returned = 2
    /\ steps >= 4
    /\ last.op = "append"
    /\ last.err = "BufferCurve overflow"

\* C6: while the buffer is unprepared, every append raises the
\* "must be prepared" error, emits nothing, publishes nothing and leaves the
\* buffer unprepared.
C6_PreSetup ==
    [][(last'.op = "append" /\ Unprepared(buffer)) =>
          /\ last'.err = "BufferCurve buffer must be prepared"
          /\ Unprepared(buffer')
          /\ UNCHANGED <<ptr, published, overlay, emits, returned>>]_vars

\* C6 witness: the third append in a row refused on an unprepared
\* error-mode buffer
C6_Witness ==
    /\ errors
    /\ Unprepared(buffer)
    /\ steps = 3
    /\ last.op = "append"
    /\ last.err = "BufferCurve buffer must be prepared"
    /\ published = None
    /\ emits = <<>>

\* C7 (as claimed): in error mode, after every append that published a
\* slice, the overlay is set from slices as long as the published one.
C7_OverlayParity ==
    (errors /\ last.op = "append" /\ published /= None) =>
        /\ overlay /= None
        /\ \A f \in {"x", "y", "top", "bottom", "left", "right"} :
               Len(overlay[f]) = Len(published)

\* C15 (as claimed): with error bars, every append of numbers made while
\* ptr < capacity, the first one after prepare included, sets the overlay
\* from the records [0, ptr): left and right from the xError column, top and
\* bottom from the yError column, and the beam, when there is a record, to
\* the largest error among them.
C15_OverlayRecomputed ==
    [][(/\ last'.op = "append"
        /\ errors
        /\ ~Unprepared(buffer)
        /\ AllNumbers(last'.args)
        /\ ptr < BufLen(buffer)) =>
          /\ overlay' /= None
          /\ overlay'.left = [i \in 1 .. ptr |-> buffer'.rows[i][3]]
          /\ overlay'.right = overlay'.left
          /\ overlay'.top = [i \in 1 .. ptr |-> buffer'.rows[i][4]]
          /\ overlay'.bottom = overlay'.top
          /\ ptr > 0 => overlay'.beam = MaxOfSeq(overlay'.left \o overlay'.top)]_vars

\* C17: a prepare(C') that returns, in whatever state, leaves ptr = 0, a
\* buffer of C' records of 4 fields with error bars and 2 without; and every
\* slice an append publishes holds only records appended since the latest
\* prepare.
C17_PrepareResets ==
    [][/\ (last'.op = "prepare" /\ last'.err = "none") =>
              /\ ptr' = 0
              /\ BufLen(buffer') = last'.args[1]
              /\ \A i \in 1 .. BufLen(buffer') :
                     /\ Len(buffer'.rows[i]) = (IF errors THEN 4 ELSE 2)
                     /\ \A j \in 1 .. Len(buffer'.rows[i]) :
                            buffer'.rows[i][j] = Uninit
       /\ (last'.op = "append" /\ ~Unprepared(buffer)) =>
              \/ published' = published
              \/ /\ Len(published') <= Len(appended)
                 /\ \A i \in 1 .. Len(published') :
                        published'[i] = StoredPair(buffer, appended[i])]_vars

\* C17 witness: a buffer prepared again after an overflow, with another
\* capacity and dtype, and two appends since, the second of which published
C17_Witness ==
    /\ last.op = "append"
    /\ last.err = "none"
    /\ returned = 3
    /\ Len(appended) = 2
    /\ BufLen(buffer) = 2
    /\ buffer.dtype = "float64"
    /\ Len(published) = 1
    /\ published[1] = StoredPair(buffer, appended[1])

(***************************************************************************)
(* Properties of ResultsCurve (checked under SpecResults)                  *)
(***************************************************************************)
\* the columns the curve is bound to
BoundColumns(c) ==
    {"x", "y"} \cup (IF c.errorBars THEN {c.xerr, c.yerr} \ {"None"} ELSE {})

\* C8: with force_reload every update() calls reload() exactly once;
\* without it no update() ever calls reload().
C8_ReloadGating ==
    reloads = (IF curve.force_reload THEN updates ELSE 0)

\* C8 witness: three updates with force_reload, one of which failed
C8_Witness ==
    /\ curve.force_reload
    /\ updates = 3
    /\ reloads = 3
    /\ rlast.op = "update"
    /\ rlast.err = "ReloadError"

\* C9 (as claimed, for a curve built with both error columns or with none):
\* an update() that fails because reload() failed or because a bound column
\* is absent from the snapshot leaves the series and the error bars as they
\* were.
C9_UpdateAllOrNothing ==
    [][(/\ rlast'.op = "update"
        /\ rlast'.err /= "none"
        /\ curve.errorBars => (curve.xerr /= "None" /\ curve.yerr /= "None")
        /\ \/ rlast'.err = "ReloadError"
           \/ \E c \in BoundColumns(curve) : KeyError(snapshot', c)) =>
          UNCHANGED <<series, bars>>]_vars

\* C10: after every update() that returned, the series is exactly the x and
\* y columns of the snapshot read by that call, whatever was shown before.
C10_FullReplace ==
    (rlast.op = "update" /\ rlast.err = "none") =>
        series = [x |-> snapshot["x"], y |-> snapshot["y"]]

\* C10 witness: an update with force_reload that returned after the file
\* shrank and its first row changed
C10_Witness ==
    /\ rlast.op = "update"
    /\ rlast.err = "none"
    /\ curve.force_reload
    /\ rlast.before /= None
    /\ Len(rlast.before.x) = 2
    /\ Len(series.x) = 1
    /\ series.x[1] /= rlast.before.x[1]
\* C16 (as claimed): for a curve with both error columns, an update() that
\* returns sets the overlay from the snapshot it read: left and right are
\* the x-error column, top and bottom the y-error column, the overlay is as
\* long as the series, and the beam is the largest value of the two columns.
C16_OverlayFromSnapshot ==
    (/\ rlast.op = "update"
     /\ rlast.err = "none"
     /\ curve.xerr /= "None"
     /\ curve.yerr /= "None") =>
        /\ bars /= None
        /\ Len(bars.x) = Len(series.x)
        /\ bars.top = snapshot[curve.yerr]
        /\ bars.bottom = snapshot[curve.yerr]
        /\ bars.left = snapshot[curve.xerr]
        /\ bars.right = snapshot[curve.xerr]
        /\ Len(bars.left) > 0 =>
               \A i \in 1 .. Len(bars.left) :
                   bars.beam >= bars.left[i] /\ bars.beam >= bars.top[i]

(***************************************************************************)
(* Properties of Crosshairs (checked under SpecCrosshairs)                 *)
(***************************************************************************)
\* a step in which mouseMoved is entered (from the proxy or directly)
MouseMovedStep == running = "idle" /\ clast'.op = "mouseMoved"

\* a step in which the proxy's timer runs the slot
FlushStep == MouseMovedStep /\ proxy.args /= None /\ proxy'.args = None

\* C11: a mouseMoved with an event at scene position p under the view
\* transform T records p, emits "coordinates" exactly once with T(p), and
\* then leaves the vertical line at T(p).x and the horizontal line at T(p).y.
C11_ProcessedEvent ==
    [][/\ (MouseMovedStep /\ clast'.arg /= None) =>
              /\ clast'.err = "none"
              /\ position' = clast'.arg
              /\ coords'.count = coords.count + 1
              /\ coords'.pair = MapSceneToView(transform, clast'.arg)
              /\ running' = "emitted"
       /\ (running = "emitted" /\ clast.op = "mouseMoved") =>
              /\ running' = "idle"
              /\ vertical' = MapSceneToView(transform, clast.arg).x
              /\ horizontal' = MapSceneToView(transform, clast.arg).y
              /\ UNCHANGED <<position, coords, transform>>]_vars

\* C11 witness: the event at (5, 7) under the identity, delivered by the
\* proxy: (5, 7) published, the lines at x = 5 and y = 7
C11_Witness ==
    /\ running = "idle"
    /\ clast = [op |-> "mouseMoved", err |-> "none", arg |-> [x |-> 5, y |-> 7]]
    /\ proxy.sinceFlush = 0
    /\ transform = Identity
    /\ position = [x |-> 5, y |-> 7]
    /\ coords = [count |-> 1, pair |-> [x |-> 5, y |-> 7]]
    /\ vertical = 5
    /\ horizontal = 7

\* C12: the proxy runs the slot at most once per window: a run is at least
\* one window after the run before it; the run emits one notification and
\* uses the position of the latest raw event.
C12_RateCoalescing ==
    [][FlushStep =>
          /\ proxy.sinceFlush = -1 \/ proxy.sinceFlush >= WindowMs
          /\ burst.n >= 1
          /\ position' = burst.latest
          /\ coords'.count = coords.count + 1]_vars

\* C12 witness: a run of the slot one window after the run before it, for a
\* burst of three raw events that began at another position than it ended
C12_Witness ==
    /\ running = "emitted"
    /\ proxy.sinceFlush = 0
    /\ burst.gap >= WindowMs
    /\ coords.count = 2
    /\ burst.collapsed = 3
    /\ burst.first /= burst.latest
    /\ position = burst.latest

\* C13: mouseMoved(None) raises "Mouse location not known" in every state,
\* leaves the recorded position and both lines where they are and emits
\* nothing.
C13_NullEvent ==
    [][(MouseMovedStep /\ clast'.arg = None) =>
          /\ clast'.err = "Mouse location not known"
          /\ UNCHANGED <<position, vertical, horizontal, coords, running>>]_vars

\* C13 witness: the error raised after a position was recorded and published
C13_Witness ==
    /\ clast.op = "mouseMoved"
    /\ clast.err = "Mouse location not known"
    /\ position /= None
    /\ coords.count > 0
    /\ vertical /= LineOrigin

\* C18: update() with no position recorded emits nothing and moves no line;
\* otherwise it emits T'(p) for the recorded p and the view transform T' of
\* the time of the call, moves both lines to T'(p) and leaves p as it is.
C18_UpdateNoEvent ==
    [][/\ (running = "idle" /\ clast'.op = "update") =>
              IF position = None
              THEN UNCHANGED <<position, vertical, horizontal, coords, running>>
              ELSE /\ coords'.count = coords.count + 1
                   /\ coords'.pair = MapSceneToView(transform, position)
                   /\ position' = position
                   /\ running' = "emitted"
       /\ (running = "emitted" /\ clast.op = "update") =>
              /\ running' = "idle"
              /\ vertical' = MapSceneToView(transform, position).x
              /\ horizontal' = MapSceneToView(transform, position).y
              /\ UNCHANGED <<position, coords, transform>>]_vars

\* C18 witness: an update() finished under another view than the one the
\* position was recorded under
C18_Witness ==
    /\ running = "idle"
    /\ clast.op = "update"
    /\ position /= None
    /\ recordedView /= transform
    /\ coords.count = 2
    /\ coords.pair = MapSceneToView(transform, position)
    /\ coords.pair /= MapSceneToView(recordedView, position)
    /\ vertical = coords.pair.x
    /\ horizontal = coords.pair.y

\* C19: show() and hide() change the visibility of both lines and nothing
\* else: not the recorded position, not the line positions, and they emit
\* nothing.
C19_ShowHide ==
    [][(running = "idle" /\ clast'.op \in {"show", "hide"}) =>
          /\ visible'.vertical = (clast'.op = "show")
          /\ visible'.horizontal = (clast'.op = "show")
          /\ UNCHANGED <<position, vertical, horizontal, coords, running,
                         transform>>]_vars

\* C19 witness: hide() with a position recorded and published
C19_Witness ==
    /\ clast.op = "hide"
    /\ ~visible.vertical
    /\ ~visible.horizontal
    /\ position /= None
    /\ coords.count > 0

\* C20: whenever update() is not running and "coordinates" has been emitted,
\* the vertical line is at the x and the horizontal line at the y of the
\* pair emitted last.
C20_LinesFollowCoordinates ==
    (running = "idle" /\ coords.count > 0) =>
        /\ vertical = coords.pair.x
        /\ horizontal = coords.pair.y

\* C20 witness: three emissions, the view changed and the lines hidden since
C20_Witness ==
    /\ running = "idle"
    /\ coords.count = 3
    /\ clast.op = "hide"
    /\ recordedView /= transform
    /\ vertical = coords.pair.x
    /\ vertical /= horizontal
(***************************************************************************)
(* Properties of wait_for_trigger (checked under SpecWait)                 *)
(***************************************************************************)
\* C14 (as claimed): the call returns normally only after a read of the run
\* state that was not 0 (or that failed), or when should_stop() returns
\* true; while the run state read is 0, should_stop() is false and the
\* timeout is not exceeded, it keeps waiting.
C14_KeepsWaiting ==
    [][(wait.pc = "loop" /\ wait'.pc = "returned") =>
          \/ wait'.ready /= 0
          \/ ShouldStopCalled(wait.stop, stopWanted)]_vars
====
